---- MODULE Spec2Model ----
(***************************************************************************)
(* ledger-rs: a single-file, memory-mapped ledger of fixed-size rows.      *)
(* The file is modelled byte for byte: a LedgerHeader followed by          *)
(* SlottedPages, each a PageHeader, a slot directory growing forward and   *)
(* row cells growing backward.  Every operation of DataLedgerStore and     *)
(* SlottedPage is an operator over the bytes, translated from the Rust     *)
(* source, and one action of the state machine.                            *)
(***************************************************************************)
EXTENDS Integers, Sequences, FiniteSets, TLC

VARIABLES
    schema,        \* the row type T: size_of::<T>(), T::ROWS_PER_PAGE, T::deleted_row
    host,          \* byte order of the build target: "le" or "be"
    file,          \* the bytes of the ledger file (the mapping is MAP_SHARED)
    map_len,       \* length of the current MmapMut (file length when it was mapped)
    status,        \* "running", or "panicked" once a call has panicked
    last,          \* what the last call was and what it returned
    rids,          \* history: row ids returned by the successful inserts, in order
    written,       \* history: for each of those rows, the value its insert was given,
                   \*          replaced by what a later in-place write put there
    direct_allocs, \* history: number of direct allocate_new_page calls
    mutated,       \* history: some cell was changed by access_row_mut / set_row_deleted
    failed,        \* history: some insert or allocate_new_page returned an error
    flushed,       \* the byte ranges <<start, len>> of the mapping the last call flushed
    field,         \* a #[max_len(N)] String field of a row the caller holds:
                   \* its length byte and its N content bytes
    borrows,       \* the references into the mapping the caller still holds: the
                   \* call each came from and the mapping it points into
    folder         \* the folder the store lives in: the file name the store was
                   \* opened under, and the other ledger files by file name

vars == <<schema, host, file, map_len, status, last, rids, written,
          direct_allocs, mutated, failed, flushed, field, borrows, folder>>

(***************************************************************************)
(* Bounds of the model.                                                    *)
(***************************************************************************)
MaxPages == 2

(***************************************************************************)
(* Byte helpers: Rust slices are 0-based and half-open.                    *)
(***************************************************************************)
Slice(data, a, b) == SubSeq(data, a + 1, b)

\* data[a .. a + bytes.len()].copy_from_slice(bytes); every caller has checked
\* the range, which Rust would otherwise answer with a panic
CopyFromSlice(data, a, bytes) ==
    IF a + Len(bytes) > Len(data) THEN data
    ELSE SubSeq(data, 1, a) \o bytes \o SubSeq(data, a + Len(bytes) + 1, Len(data))

Zeros(n) == [i \in 1..n |-> 0]

Spaces(n) == [i \in 1..n |-> 32]

to_le_bytes(v) ==
    << v % 256, (v \div 256) % 256, (v \div 65536) % 256, (v \div 16777216) % 256 >>

from_le_bytes(b) == b[1] + 256 * b[2] + 65536 * b[3] + 16777216 * b[4]

to_be_bytes(v) ==
    << (v \div 16777216) % 256, (v \div 65536) % 256, (v \div 256) % 256, v % 256 >>

from_be_bytes(b) == b[4] + 256 * b[3] + 65536 * b[2] + 16777216 * b[1]

\* u32::from_ne_bytes and a native-endian unaligned write, on the build's host
from_ne_bytes(b) == IF host = "le" THEN from_le_bytes(b) ELSE from_be_bytes(b)

to_ne_bytes(v) == IF host = "le" THEN to_le_bytes(v) ELSE to_be_bytes(v)

\* u32 arithmetic.  Every counter of the model stays far below 2^32 (the
\* page count is capped by MaxPages), so an addition never wraps; a
\* subtraction a - b with a < b is an arithmetic overflow, reported by
\* Underflows and turned into a panic by the operation that computes it.
Underflows(a, b) == a < b

(***************************************************************************)
(* Schema constants.                                                       *)
(***************************************************************************)
PAGE_HEADER_SZ == 16

LEDGER_HEADER_SZ == 68

ROW_SZ == schema.row_sz

page_sz == PAGE_HEADER_SZ + ROW_SZ * schema.rows_per_page

\* mutant: the fan-out computed without the 4 bytes of a slot entry
max_rows_per_page_unslotted == (page_sz - PAGE_HEADER_SZ) \div ROW_SZ

max_rows_per_page == (page_sz - PAGE_HEADER_SZ) \div (ROW_SZ + 4)

\* PageSchema::to_bytes of a fixed-layout row: the row's own bytes
to_bytes(object) == object

deleted_row(page_row_n) == schema.deleted_row

(***************************************************************************)
(* PageHeader: page_type, flags, 2 pad bytes, slot_count, free_start,      *)
(* free_end (three little-endian u32 stored as [u8; 4]).                   *)
(***************************************************************************)
PageHeader_new(page_size) ==
    <<0, 0, 0, 0>> \o to_le_bytes(0) \o to_le_bytes(PAGE_HEADER_SZ) \o to_le_bytes(page_size)

slot_count(d) == from_le_bytes(Slice(d, 4, 8))

\* mutant: the setter leaves slot_count_u32 as it was
set_slot_count_dropped(d, v) == d

set_slot_count(d, v) == CopyFromSlice(d, 4, to_le_bytes(v))

free_start(d) == from_le_bytes(Slice(d, 8, 12))

\* mutant: the setter pasted from set_free_end, still writing free_end_u32
set_free_start_pasted(d, v) == CopyFromSlice(d, 12, to_le_bytes(v))

set_free_start(d, v) == CopyFromSlice(d, 8, to_le_bytes(v))

free_end(d) == from_le_bytes(Slice(d, 12, 16))

\* mutant: the setter leaves free_end_u32 as it was
set_free_end_dropped(d, v) == d

set_free_end(d, v) == CopyFromSlice(d, 12, to_le_bytes(v))

free_space(d) == free_end(d) - free_start(d)

(***************************************************************************)
(* SlottedPage.                                                            *)
(***************************************************************************)
\* mutant: the page zero-filled and its header never written
SlottedPage_new_blank == Zeros(page_sz)

SlottedPage_new == CopyFromSlice(Zeros(page_sz), 0, PageHeader_new(page_sz))

\* mutant: the slot index not scaled by the 4 bytes of an entry
_get_slot_id_unscaled(row_n) == PAGE_HEADER_SZ + row_n

_get_slot_id(row_n) == PAGE_HEADER_SZ + row_n * 4

NoOffset == [some |-> FALSE, off |-> 0]

\* mutant: the slot entry read in the byte order opposite to the one written
_offset_swapped(page_row_n, num_rows, data) ==
    IF page_row_n >= num_rows THEN NoOffset
    ELSE IF _get_slot_id(page_row_n) + 4 > Len(data) THEN NoOffset
    ELSE [some |-> TRUE,
          off  |-> from_be_bytes(Slice(data, _get_slot_id(page_row_n),
                                       _get_slot_id(page_row_n) + 4))]

\* mutant: the bounds test off by one, so that slot slot_count passes
_offset_inclusive(page_row_n, num_rows, data) ==
    IF page_row_n > num_rows THEN NoOffset
    ELSE IF _get_slot_id(page_row_n) + 4 > Len(data) THEN NoOffset
    ELSE [some |-> TRUE,
          off  |-> from_ne_bytes(Slice(data, _get_slot_id(page_row_n),
                                       _get_slot_id(page_row_n) + 4))]

_offset(page_row_n, num_rows, data) ==
    IF page_row_n >= num_rows THEN NoOffset
    ELSE IF _get_slot_id(page_row_n) + 4 > Len(data) THEN NoOffset
    ELSE [some |-> TRUE,
          off  |-> from_ne_bytes(Slice(data, _get_slot_id(page_row_n),
                                       _get_slot_id(page_row_n) + 4))]

\* mutant: the second test forgets the 4 bytes of the new slot entry
no_space_without_slot(d) ==
    \/ free_space(d) <= ROW_SZ
    \/ free_end(d) - ROW_SZ < free_start(d)

\* the two NoSpace tests of insert_row.  The second is reached with
\* free_end - free_start > ROW_SZ, so free_end - ROW_SZ cannot underflow.
no_space(d) ==
    \/ free_space(d) <= ROW_SZ
    \/ free_end(d) - ROW_SZ < free_start(d) + 4

\* insert_row(&mut self, object): enc_ok is whether object.to_bytes() returns Ok.
\* The result carries the page bytes as the call leaves them.
insert_row(d, object, enc_ok) ==
    IF Underflows(free_end(d), free_start(d))
    THEN [kind |-> "Panic", n |-> 0, data |-> d]
    ELSE IF no_space(d)
    THEN [kind |-> "NoSpace", n |-> 0, data |-> d]
    ELSE LET aligned_start == free_end(d) - ROW_SZ
             sc      == slot_count(d)
             slot_id == _get_slot_id(sc)
             d1 == set_free_start(d, slot_id + 4)
             d2 == set_free_end(d1, aligned_start)
             d3 == set_slot_count(d2, sc + 1)
         IN IF slot_id + 4 > Len(d)
            THEN [kind |-> "Panic", n |-> 0, data |-> d3]
            ELSE LET d4 == CopyFromSlice(d3, slot_id, to_le_bytes(aligned_start)) IN
                 IF aligned_start + ROW_SZ > Len(d)
                 THEN [kind |-> "Panic", n |-> 0, data |-> d4]
                 ELSE IF ~enc_ok
                 THEN [kind |-> "RkyvError", n |-> 0, data |-> d4]
                 ELSE IF Len(to_bytes(object)) # ROW_SZ
                 THEN [kind |-> "Panic", n |-> 0, data |-> d4]
                 ELSE [kind |-> "Ok", n |-> sc,
                       data |-> CopyFromSlice(d4, aligned_start, to_bytes(object))]

\* SlottedPage::access_row and access_row_mut share the locator; the row is
\* returned as the bytes of its cell
\* mutant: the locator given the page's capacity instead of its slot count
page_access_row_capacity(d, page_row_n) ==
    LET o == _offset(page_row_n, max_rows_per_page, d) IN
    IF ~o.some THEN [kind |-> "RowNotFound", off |-> 0, row |-> <<>>]
    ELSE IF o.off + ROW_SZ > Len(d) THEN [kind |-> "Panic", off |-> 0, row |-> <<>>]
    ELSE [kind |-> "Some", off |-> o.off, row |-> Slice(d, o.off, o.off + ROW_SZ)]

page_access_row(d, page_row_n) ==
    LET o == _offset(page_row_n, slot_count(d), d) IN
    IF ~o.some THEN [kind |-> "RowNotFound", off |-> 0, row |-> <<>>]
    ELSE IF o.off + ROW_SZ > Len(d) THEN [kind |-> "Panic", off |-> 0, row |-> <<>>]
    ELSE [kind |-> "Some", off |-> o.off, row |-> Slice(d, o.off, o.off + ROW_SZ)]

\* mutant: the cell of slot 0 handed out for every slot in range
page_access_row_mut_first(d, page_row_n) ==
    IF page_row_n >= slot_count(d) THEN page_access_row(d, page_row_n)
    ELSE page_access_row(d, 0)

page_access_row_mut(d, page_row_n) == page_access_row(d, page_row_n)

\* mutant: a delete that also gives the slot back
set_row_deleted_unlinking(d, page_row_n) ==
    LET o == _offset(page_row_n, slot_count(d), d) IN
    IF ~o.some THEN [kind |-> "RowIdOutOfBounds", data |-> d]
    ELSE [kind |-> "Ok", data |-> set_slot_count(d, slot_count(d) - 1)]

\* mutant: a delete that gives the cell's bytes back to the free space
set_row_deleted_reclaiming(d, page_row_n) ==
    LET o == _offset(page_row_n, slot_count(d), d) IN
    IF ~o.some THEN [kind |-> "RowIdOutOfBounds", data |-> d]
    ELSE [kind |-> "Ok", data |-> set_free_end(d, free_end(d) + ROW_SZ)]

\* SlottedPage::set_row_deleted: the result carries the page bytes afterwards
set_row_deleted(d, page_row_n) ==
    LET o == _offset(page_row_n, slot_count(d), d) IN
    IF ~o.some THEN [kind |-> "RowIdOutOfBounds", data |-> d]
    ELSE IF o.off + ROW_SZ > Len(d) THEN [kind |-> "Panic", data |-> d]
    ELSE IF Len(deleted_row(page_row_n)) # ROW_SZ THEN [kind |-> "Panic", data |-> d]
    ELSE [kind |-> "Ok", data |-> CopyFromSlice(d, o.off, deleted_row(page_row_n))]

(***************************************************************************)
(* LedgerHeader: flags (1), ledger_name (9), ledger_description (32),      *)
(* num_pages, rows_per_page, page_cursor ([u8; 4] each), 14 pad bytes;     *)
(* #[repr(C)] with byte-aligned fields, so the offsets are the running     *)
(* sums.  The operators take the bytes that start with the header.         *)
(***************************************************************************)
\* mutant: the name cut to 8 bytes
LedgerName_from_8(input) ==
    CopyFromSlice(Spaces(9), 0, SubSeq(input, 1, IF Len(input) < 8 THEN Len(input) ELSE 8))

\* impl From<&str> for LedgerName: the first min(len, 9) bytes, space-padded
LedgerName_from(input) ==
    CopyFromSlice(Spaces(9), 0, SubSeq(input, 1, IF Len(input) < 9 THEN Len(input) ELSE 9))

\* the URL_SAFE alphabet of the base64 crate: A-Z, a-z, 0-9, '-', '_'
URL_SAFE(sextet) ==
    IF sextet < 26 THEN 65 + sextet
    ELSE IF sextet < 52 THEN 97 + (sextet - 26)
    ELSE IF sextet < 62 THEN 48 + (sextet - 52)
    ELSE IF sextet = 62 THEN 45
    ELSE 95

\* URL_SAFE_NO_PAD.encode: four characters for each three bytes, two or three
\* characters for a last group of one or two bytes, and no '=' behind them
RECURSIVE URL_SAFE_NO_PAD_encode(_)
URL_SAFE_NO_PAD_encode(bytes) ==
    IF Len(bytes) = 0 THEN <<>>
    ELSE IF Len(bytes) = 1 THEN
        << URL_SAFE(bytes[1] \div 4), URL_SAFE((bytes[1] % 4) * 16) >>
    ELSE IF Len(bytes) = 2 THEN
        << URL_SAFE(bytes[1] \div 4),
           URL_SAFE((bytes[1] % 4) * 16 + bytes[2] \div 16),
           URL_SAFE((bytes[2] % 16) * 4) >>
    ELSE
        << URL_SAFE(bytes[1] \div 4),
           URL_SAFE((bytes[1] % 4) * 16 + bytes[2] \div 16),
           URL_SAFE((bytes[2] % 16) * 4 + bytes[3] \div 64),
           URL_SAFE(bytes[3] % 64) >>
        \o URL_SAFE_NO_PAD_encode(SubSeq(bytes, 4, Len(bytes)))

\* LedgerName::to_string
LedgerName_to_string(ledger_name) == URL_SAFE_NO_PAD_encode(ledger_name)

\* open: folder_path.join(ledger_name.to_string()); the model has one folder,
\* so the path is the file name
ledger_path(ledger_name) == LedgerName_to_string(ledger_name)

\* LedgerDescription::new: the first min(len, 32) bytes, space-padded
LedgerDescription_new(input) ==
    CopyFromSlice(Spaces(32), 0, SubSeq(input, 1, IF Len(input) < 32 THEN Len(input) ELSE 32))

LedgerHeader_new(ledger_name, ledger_description) ==
    <<0>> \o ledger_name \o ledger_description
          \o to_le_bytes(0) \o to_le_bytes(0) \o to_le_bytes(0) \o Zeros(14)

num_pages(f) == from_le_bytes(Slice(f, 42, 46))

\* mutant: the setter leaves num_pages as it was
set_num_pages_dropped(f, v) == f

set_num_pages(f, v) == CopyFromSlice(f, 42, to_le_bytes(v))

\* mutant: the cursor taken to be the tail page
page_cursor_tail(f) == from_le_bytes(Slice(f, 42, 46)) - 1

page_cursor(f) == from_le_bytes(Slice(f, 50, 54))

\* mutant: the cursor left where it was
inc_page_cursor_skipped(f) == f

\* mutant: the incremented cursor written back in big-endian order
inc_page_cursor_swapped(f) ==
    CopyFromSlice(f, 50, to_be_bytes(from_le_bytes(Slice(f, 50, 54)) + 1))

\* mutant: the cursor advanced by two
inc_page_cursor_twice(f) ==
    CopyFromSlice(f, 50, to_ne_bytes(from_ne_bytes(Slice(f, 50, 54)) + 2))

\* inc_page_cursor: read_unaligned / write_unaligned of a native u32 over the bytes
inc_page_cursor(f) == CopyFromSlice(f, 50, to_ne_bytes(from_ne_bytes(Slice(f, 50, 54)) + 1))

\* LedgerHeader::num_rows(rows_per_page)
header_num_rows(f, rows_per_page) == num_pages(f) * rows_per_page + page_cursor(f)

(***************************************************************************)
(* RowQuery.                                                               *)
(***************************************************************************)
\* mutant: the fan-out taken from ROWS_PER_PAGE instead of max_rows_per_page
to_row_id_rows_per_page(page_id, row_n) == page_id * schema.rows_per_page + row_n

to_row_id(page_id, row_n) == page_id * max_rows_per_page + row_n

\* from_row_id divides by max_rows_per_page: a division by zero panics
from_row_id(row_id) ==
    IF max_rows_per_page = 0 THEN [ok |-> FALSE, page_id |-> 0, page_row_n |-> 0]
    ELSE [ok |-> TRUE, page_id |-> row_id \div max_rows_per_page,
          page_row_n |-> row_id % max_rows_per_page]

\* The same two functions over the whole u32 range.  A u32 is kept as two
\* 16-bit limbs [hi, lo], so that no intermediate value leaves the range of
\* the checker's integers; page_id * m + row_n and row_id / m, row_id % m are
\* schoolbook arithmetic on the limbs for a small m.
u32_mul_add(a, m, c) ==
    LET lo == a.lo * m + c
        hi == a.hi * m + lo \div 65536
    IN [value |-> [hi |-> hi % 65536, lo |-> lo % 65536], overflow |-> hi >= 65536]

u32_div_rem(a, m) ==
    LET rest == (a.hi % m) * 65536 + a.lo
    IN [quot |-> [hi |-> a.hi \div m, lo |-> rest \div m], rem |-> rest % m]

\* mutant: the fan-out taken from ROWS_PER_PAGE instead of max_rows_per_page
to_row_id_u32_rows_per_page(page_id, row_n, overflow_checks) ==
    LET r == u32_mul_add(page_id, schema.rows_per_page, row_n) IN
    [kind |-> IF r.overflow /\ overflow_checks THEN "Panic" ELSE "Ok", row_id |-> r.value]

\* to_row_id on u32: an overflow of the product or of the sum panics in a
\* build with overflow checks and wraps in one without
to_row_id_u32(page_id, row_n, overflow_checks) ==
    LET r == u32_mul_add(page_id, max_rows_per_page, row_n) IN
    [kind |-> IF r.overflow /\ overflow_checks THEN "Panic" ELSE "Ok", row_id |-> r.value]

from_row_id_u32(row_id) ==
    IF max_rows_per_page = 0
    THEN [ok |-> FALSE, page_id |-> [hi |-> 0, lo |-> 0], page_row_n |-> 0]
    ELSE LET d == u32_div_rem(row_id, max_rows_per_page)
         IN [ok |-> TRUE, page_id |-> d.quot, page_row_n |-> d.rem]

(***************************************************************************)
(* DataLedgerStore.  f is the file's bytes and ml the mapping's length:    *)
(* every access goes through a slice of the mapping, which panics when it  *)
(* ends beyond the mapping.                                                *)
(***************************************************************************)
_get_page_data_start(page_id) == LEDGER_HEADER_SZ + page_id * page_sz

\* mutant: the count taken one too large, so that page_id = num_pages passes
total_pages_plus_one(f) == num_pages(f) + 1

total_pages(f) == num_pages(f)

\* access_page and access_page_mut: the bounds check, then the slice
access_page(f, ml, page_id) ==
    IF page_id >= total_pages(f) THEN [kind |-> "PageIdOutOfBounds", data |-> <<>>]
    ELSE IF _get_page_data_start(page_id) + page_sz > ml THEN [kind |-> "Panic", data |-> <<>>]
    ELSE [kind |-> "Ok",
          data |-> Slice(f, _get_page_data_start(page_id),
                            _get_page_data_start(page_id) + page_sz)]

access_page_mut(f, ml, page_id) == access_page(f, ml, page_id)

\* a write through a &mut SlottedPage borrowed from the mapping
StorePage(f, page_id, data) == CopyFromSlice(f, _get_page_data_start(page_id), data)

\* clone_page: a copy of the page's bytes
clone_page(f, ml, page_id) == access_page(f, ml, page_id)

\* mutant: the whole mapping flushed after the page was written
write_page_flush_all(f, ml, page_id, page) ==
    IF page_id >= total_pages(f)
    THEN [kind |-> "PageIdOutOfBounds", file |-> f, flushed |-> <<>>]
    ELSE [kind |-> "Ok", file |-> CopyFromSlice(f, _get_page_data_start(page_id), page),
          flushed |-> << <<0, ml>> >>]

\* write_page: the bounds check, the copy into the mapping, and
\* flush_range(start, PAGE_SIZE)
write_page(f, ml, page_id, page) ==
    IF page_id >= total_pages(f)
    THEN [kind |-> "PageIdOutOfBounds", file |-> f, flushed |-> <<>>]
    ELSE IF _get_page_data_start(page_id) + page_sz > ml
    THEN [kind |-> "Panic", file |-> f, flushed |-> <<>>]
    ELSE [kind |-> "Ok", file |-> CopyFromSlice(f, _get_page_data_start(page_id), page),
          flushed |-> << <<_get_page_data_start(page_id), page_sz>> >>]

\* sync_all: MmapMut::flush, the whole mapping
sync_all(ml) == [kind |-> "Ok", flushed |-> << <<0, ml>> >>]

\* mutant: the file grown one byte short
set_len_short(f, len) ==
    IF len <= Len(f) THEN SubSeq(f, 1, len) ELSE f \o Zeros(len - Len(f) - 1)

\* File::set_len: truncates, or extends with zero bytes
set_len(f, len) ==
    IF len <= Len(f) THEN SubSeq(f, 1, len) ELSE f \o Zeros(len - Len(f))

\* allocate_new_page.  fault names the system call that fails: "none",
\* "set_len" or "map".  The result carries the file and mapping afterwards.
allocate_new_page(f, ml, fault) ==
    LET n  == num_pages(f)
        f1 == set_num_pages(f, n + 1)
        new_file_len == LEDGER_HEADER_SZ + (n + 1) * page_sz
        start == LEDGER_HEADER_SZ + n * page_sz
    IN IF fault = "set_len"
       THEN [kind |-> "StdIoError", n |-> 0, file |-> f1, map_len |-> ml]
       ELSE LET f2 == set_len(f1, new_file_len) IN
            IF fault = "map"
            THEN [kind |-> "StdIoError", n |-> 0, file |-> f2, map_len |-> ml]
            ELSE [kind |-> "Ok", n |-> n,
                  file |-> CopyFromSlice(f2, start, SlottedPage_new),
                  map_len |-> Len(f2)]

\* num_rows
num_rows(f, ml) ==
    IF num_pages(f) = 0 THEN [kind |-> "Panic", n |-> 0]
    ELSE LET p == access_page(f, ml, num_pages(f) - 1) IN
         IF p.kind # "Ok" THEN [kind |-> p.kind, n |-> 0]
         ELSE [kind |-> "Ok",
               n |-> (num_pages(f) - 1) * max_rows_per_page + slot_count(p.data)]

\* insert.  fault: "none", "encode" (to_bytes returns Err), "set_len", "map".
insert(f, ml, value, fault) ==
    LET page_id == page_cursor(f)
        p == access_page_mut(f, ml, page_id)
    IN IF p.kind # "Ok"
       THEN [kind |-> p.kind, n |-> 0, file |-> f, map_len |-> ml]
       ELSE LET r == insert_row(p.data, value, fault # "encode") IN
            IF r.kind = "Ok"
            THEN [kind |-> "Ok", n |-> to_row_id(page_id, r.n),
                  file |-> StorePage(f, page_id, r.data), map_len |-> ml]
            ELSE IF r.kind # "NoSpace"
            THEN [kind |-> r.kind, n |-> 0,
                  file |-> StorePage(f, page_id, r.data), map_len |-> ml]
            ELSE LET a == allocate_new_page(f, ml, fault) IN
                 IF a.kind # "Ok"
                 THEN [kind |-> a.kind, n |-> 0, file |-> a.file, map_len |-> a.map_len]
                 ELSE LET f3 == inc_page_cursor(a.file)
                          next_page_id == page_cursor(f3)
                          np == access_page_mut(f3, a.map_len, next_page_id)
                      IN IF np.kind # "Ok"
                         THEN [kind |-> np.kind, n |-> 0, file |-> f3, map_len |-> a.map_len]
                         ELSE LET r2 == insert_row(np.data, value, fault # "encode") IN
                              IF r2.kind = "Ok"
                              THEN [kind |-> "Ok", n |-> to_row_id(next_page_id, r2.n),
                                    file |-> StorePage(f3, next_page_id, r2.data),
                                    map_len |-> a.map_len]
                              ELSE [kind |-> r2.kind, n |-> 0,
                                    file |-> StorePage(f3, next_page_id, r2.data),
                                    map_len |-> a.map_len]

\* access_row: [kind, row] with kind "Some", an error, or "Panic";
\* pid and off locate the cell that a "Some" refers to
access_row(f, ml, row_id) ==
    LET q == from_row_id(row_id) IN
    IF ~q.ok THEN [kind |-> "Panic", pid |-> 0, off |-> 0, row |-> <<>>]
    ELSE LET p == access_page(f, ml, q.page_id) IN
         IF p.kind # "Ok" THEN [kind |-> p.kind, pid |-> 0, off |-> 0, row |-> <<>>]
         ELSE LET r == page_access_row(p.data, q.page_row_n) IN
              [kind |-> r.kind, pid |-> q.page_id, off |-> r.off, row |-> r.row]

access_row_mut(f, ml, row_id) ==
    LET q == from_row_id(row_id) IN
    IF ~q.ok THEN [kind |-> "Panic", pid |-> 0, off |-> 0, row |-> <<>>]
    ELSE LET p == access_page_mut(f, ml, q.page_id) IN
         IF p.kind # "Ok" THEN [kind |-> p.kind, pid |-> 0, off |-> 0, row |-> <<>>]
         ELSE LET r == page_access_row_mut(p.data, q.page_row_n) IN
              [kind |-> r.kind, pid |-> q.page_id, off |-> r.off, row |-> r.row]

\* mutant: the file initialised whether or not it already has content
open_always_new(f, ledger_name, ledger_description) ==
    LET f0 == set_len(f, page_sz + LEDGER_HEADER_SZ)
        ledger_header == set_num_pages(LedgerHeader_new(ledger_name, ledger_description), 1)
        f1 == CopyFromSlice(f0, 0, ledger_header)
    IN [kind |-> "Ok", file |-> CopyFromSlice(f1, LEDGER_HEADER_SZ, SlottedPage_new),
        map_len |-> Len(f0)]

\* mutant: the header of an existing file brought in line with the arguments
open_rewriting_header(f, ledger_name, ledger_description) ==
    IF Len(f) = 0 THEN open_always_new(f, ledger_name, ledger_description)
    ELSE IF Len(f) < LEDGER_HEADER_SZ
    THEN [kind |-> "Panic", file |-> f, map_len |-> Len(f)]
    ELSE [kind |-> "Ok", file |-> CopyFromSlice(f, 1, ledger_name \o ledger_description),
          map_len |-> Len(f)]

\* open: a zero-length file is sized to one page and initialised; an
\* existing file is mapped and its header trusted
open(f, ledger_name, ledger_description) ==
    IF Len(f) = 0
    THEN LET f0 == set_len(f, page_sz + LEDGER_HEADER_SZ)
             ledger_header == set_num_pages(LedgerHeader_new(ledger_name, ledger_description), 1)
             f1 == CopyFromSlice(f0, 0, ledger_header)
         IN [kind |-> "Ok", file |-> CopyFromSlice(f1, LEDGER_HEADER_SZ, SlottedPage_new),
             map_len |-> Len(f0)]
    ELSE IF Len(f) < LEDGER_HEADER_SZ
    THEN [kind |-> "Panic", file |-> f, map_len |-> Len(f)]
    ELSE [kind |-> "Ok", file |-> f, map_len |-> Len(f)]

(***************************************************************************)
(* A #[max_len(N)] String field as the row macro lays it out: a u8 length  *)
(* and [u8; N] content, space-padded.                                      *)
(***************************************************************************)
\* T::default(): length 0, all spaces
string_default(max_len) == [len |-> 0, bytes |-> Spaces(max_len)]

\* the getter: the first len bytes (the model's strings are ASCII, so
\* from_utf8 accepts every prefix)
string_get(fld) == [kind |-> "Ok", val |-> SubSeq(fld.bytes, 1, fld.len)]

\* the setter: byte_len as u8 keeps the low 8 bits
string_set(fld, val) ==
    IF Len(val) > Len(fld.bytes) \/ Len(val) = 0
    THEN [kind |-> "Error", field |-> fld]
    ELSE [kind |-> "Ok",
          field |-> [len |-> Len(val) % 256, bytes |-> CopyFromSlice(fld.bytes, 0, val)]]

(***************************************************************************)
(* The callers' inputs.                                                    *)
(***************************************************************************)
\* Row types: a macro-generated one (deleted_row is empty) whose page keeps
\* 2 rows and rejects the third by the second NoSpace test
\* (34-byte pages), and a hand-written one with a sentinel whose page keeps
\* 1 row and rejects the second by the first test (24-byte pages).
Schemas ==
    { [row_sz |-> 3, rows_per_page |-> 6, deleted_row |-> <<>>],
      [row_sz |-> 2, rows_per_page |-> 4, deleted_row |-> <<255, 255>>] }

\* A row type declared with ROWS_PER_PAGE = 1: its 18-byte page has room for
\* the 2-byte cell but not for the slot entry as well (max_rows_per_page = 0).
TinySchemas == { [row_sz |-> 2, rows_per_page |-> 1, deleted_row |-> <<>>] }

\* the fallible calls inside insert and allocate_new_page: T::to_bytes,
\* File::set_len, MmapMut::map_mut
Faults == {"encode", "set_len", "map"}

\* #[max_len(32)] of the examples' String fields
ExampleMaxLen == 32

\* "Documents", "My documents"
ExampleName == <<68, 111, 99, 117, 109, 101, 110, 116, 115>>

ExampleDescription == <<77, 121, 32, 100, 111, 99, 117, 109, 101, 110, 116, 115>>

\* the rows a caller inserts or writes in place: no byte of them is zero
RowValues == { [i \in 1..ROW_SZ |-> b] : b \in {1, 2} }

\* row ids a caller asks for: every allocated row, and one page beyond
RowIds == 0..(MaxPages * max_rows_per_page)

PageIds == 0..MaxPages

Result(op, kind, n, row) == [op |-> op, kind |-> kind, n |-> n, row |-> row]

WrittenInPlace(row_id, bytes) ==
    [i \in 1..Len(written) |-> IF rids[i] = row_id THEN bytes ELSE written[i]]

AfterCall(kind) == IF kind = "Panic" THEN "panicked" ELSE status

(***************************************************************************)
(* Initial state: open() has created the ledger in an empty folder.        *)
(***************************************************************************)
InitWithField(schemas, hosts, max_lens) ==
    /\ schema \in schemas
    /\ host \in hosts
    /\ LET o == open(<<>>, LedgerName_from(ExampleName),
                     LedgerDescription_new(ExampleDescription))
       IN /\ file = o.file
          /\ map_len = o.map_len
    /\ status = "running"
    /\ last = Result("open", "Ok", 0, <<>>)
    /\ rids = <<>>
    /\ written = <<>>
    /\ direct_allocs = 0
    /\ mutated = FALSE
    /\ failed = FALSE
    /\ flushed = <<>>
    /\ field \in { string_default(max_len) : max_len \in max_lens }
    /\ borrows = {}
    /\ folder = [path |-> ledger_path(LedgerName_from(ExampleName)),
                 closed |-> [p \in {} |-> <<>>]]

InitWith(schemas, hosts) == InitWithField(schemas, hosts, {ExampleMaxLen})

Init == InitWith(Schemas, {"le"})

(***************************************************************************)
(* Actions: one call of the API each.                                      *)
(***************************************************************************)
InsertWith(value, fault) ==
    /\ status = "running"
    /\ LET r == insert(file, map_len, value, fault) IN
       /\ num_pages(r.file) <= MaxPages
       /\ file' = r.file
       /\ map_len' = r.map_len
       /\ status' = AfterCall(r.kind)
       /\ last' = Result("insert", r.kind, r.n, value)
       /\ rids' = IF r.kind = "Ok" THEN Append(rids, r.n) ELSE rids
       /\ written' = IF r.kind = "Ok" THEN Append(written, value) ELSE written
       /\ failed' = (failed \/ r.kind # "Ok")
    /\ flushed' = <<>>
    /\ UNCHANGED <<folder, borrows, schema, host, field, direct_allocs, mutated>>

Insert(value) == InsertWith(value, "none")

AllocateNewPageWith(fault) ==
    /\ status = "running"
    /\ num_pages(file) < MaxPages
    /\ LET r == allocate_new_page(file, map_len, fault) IN
       /\ file' = r.file
       /\ map_len' = r.map_len
       /\ status' = AfterCall(r.kind)
       /\ last' = Result("allocate_new_page", r.kind, r.n, <<>>)
       /\ failed' = (failed \/ r.kind # "Ok")
    /\ direct_allocs' = direct_allocs + 1
    /\ flushed' = <<>>
    /\ UNCHANGED <<folder, borrows, schema, host, field, rids, written, mutated>>

AllocateNewPage == AllocateNewPageWith("none")

\* mutant: a read that moves the ledger's cursor to the page it looked at
AccessRowMovingCursor(row_id) ==
    /\ status = "running"
    /\ LET r == access_row(file, map_len, row_id) IN
       /\ status' = AfterCall(r.kind)
       /\ last' = Result("access_row", r.kind, row_id, r.row)
       /\ file' = CopyFromSlice(file, 50, to_le_bytes(from_row_id(row_id).page_id))
    /\ flushed' = <<>>
    /\ UNCHANGED <<folder, borrows, schema, host, field, map_len, rids, written, direct_allocs, mutated, failed>>

AccessRow(row_id) ==
    /\ status = "running"
    /\ LET r == access_row(file, map_len, row_id) IN
       /\ status' = AfterCall(r.kind)
       /\ last' = Result("access_row", r.kind, row_id, r.row)
    /\ flushed' = <<>>
    /\ UNCHANGED <<folder, borrows, schema, host, field, file, map_len, rids, written, direct_allocs, mutated, failed>>

\* access_row_mut, after which the caller overwrites the row through the Seal
AccessRowMut(row_id, value) ==
    /\ status = "running"
    /\ LET r == access_row_mut(file, map_len, row_id) IN
       /\ file' = IF r.kind = "Some"
                  THEN CopyFromSlice(file, _get_page_data_start(r.pid) + r.off, value)
                  ELSE file
       /\ status' = AfterCall(r.kind)
       /\ last' = Result("access_row_mut", r.kind, row_id, value)
       /\ mutated' = (mutated \/ r.kind = "Some")
       /\ written' = IF r.kind = "Some" THEN WrittenInPlace(row_id, value) ELSE written
    /\ flushed' = <<>>
    /\ UNCHANGED <<folder, borrows, schema, host, field, map_len, rids, direct_allocs, failed>>

\* access_page_mut(page_id)?.set_row_deleted(page_row_n)
SetRowDeleted(page_id, page_row_n) ==
    /\ status = "running"
    /\ LET p == access_page_mut(file, map_len, page_id) IN
       IF p.kind # "Ok"
       THEN /\ file' = file
            /\ status' = AfterCall(p.kind)
            /\ last' = Result("set_row_deleted", p.kind, page_row_n, <<>>)
            /\ mutated' = mutated
            /\ written' = written
       ELSE LET r == set_row_deleted(p.data, page_row_n) IN
            /\ file' = StorePage(file, page_id, r.data)
            /\ status' = AfterCall(r.kind)
            /\ last' = Result("set_row_deleted", r.kind, page_row_n, <<>>)
            /\ mutated' = (mutated \/ r.kind = "Ok")
            /\ written' = IF r.kind = "Ok"
                          THEN WrittenInPlace(to_row_id(page_id, page_row_n),
                                              deleted_row(page_row_n))
                          ELSE written
    /\ flushed' = <<>>
    /\ UNCHANGED <<folder, borrows, schema, host, field, map_len, rids, direct_allocs, failed>>

NumRows ==
    /\ status = "running"
    /\ LET r == num_rows(file, map_len) IN
       /\ status' = AfterCall(r.kind)
       /\ last' = Result("num_rows", r.kind, r.n, <<>>)
    /\ flushed' = <<>>
    /\ UNCHANGED <<folder, borrows, schema, host, field, file, map_len, rids, written, direct_allocs, mutated, failed>>

Next ==
    \/ \E value \in RowValues : Insert(value)
    \/ AllocateNewPage
    \/ \E row_id \in RowIds : AccessRow(row_id)
    \/ \E row_id \in RowIds, value \in RowValues : AccessRowMut(row_id, value)
    \/ \E page_id \in PageIds, page_row_n \in 0..max_rows_per_page :
          SetRowDeleted(page_id, page_row_n)
    \/ NumRows

Spec == Init /\ [][Next]_vars

(***************************************************************************)
(* The same store when a call it depends on may fail, and with the row     *)
(* type whose page holds no row.                                           *)
(***************************************************************************)
InitFault == InitWith(Schemas \cup TinySchemas, {"le"})

InsertFault(value, fault) == InsertWith(value, fault)

AllocateNewPageFault(fault) == AllocateNewPageWith(fault)

NextFault ==
    \/ Next
    \/ \E value \in RowValues, fault \in Faults : InsertFault(value, fault)
    \/ \E fault \in Faults \ {"encode"} : AllocateNewPageFault(fault)

SpecFault == InitFault /\ [][NextFault]_vars

(***************************************************************************)
(* The store over every row type, the one whose page holds no row          *)
(* included, with system calls that succeed.                               *)
(***************************************************************************)
SpecAllSchemas == InitFault /\ [][Next]_vars

(***************************************************************************)
(* The store that is dropped (or whose process has ended) and opened       *)
(* again over the same file.                                               *)
(***************************************************************************)
Reopen ==
    /\ LET o == open(file, LedgerName_from(ExampleName),
                     LedgerDescription_new(ExampleDescription))
       IN /\ file' = o.file
          /\ map_len' = o.map_len
          /\ status' = IF o.kind = "Panic" THEN "panicked" ELSE "running"
          /\ last' = Result("open", o.kind, 0, <<>>)
    /\ flushed' = <<>>
    /\ UNCHANGED <<folder, borrows, schema, host, field, rids, written, direct_allocs, mutated, failed>>

NextReopen ==
    \/ Next
    \/ Reopen

SpecReopen == Init /\ [][NextReopen]_vars

(***************************************************************************)
(* The store that is dropped and whose file is deleted (or emptied) before *)
(* the folder is opened again: open creates the missing file, finds it of  *)
(* length 0, and builds a new ledger in it.                                *)
(***************************************************************************)
Remove ==
    /\ status # "closed"
    /\ file' = <<>>
    /\ map_len' = 0
    /\ status' = "closed"
    /\ last' = Result("remove", "Ok", 0, <<>>)
    /\ rids' = <<>>
    /\ written' = <<>>
    /\ direct_allocs' = 0
    /\ mutated' = FALSE
    /\ failed' = FALSE
    /\ flushed' = <<>>
    /\ UNCHANGED <<folder, borrows, schema, host, field>>

NextCreate ==
    \/ NextReopen
    \/ Remove

SpecCreate == Init /\ [][NextCreate]_vars

(***************************************************************************)
(* The store that is dropped and opened again over its file with a name    *)
(* and a description of the caller's choice (the file may have been        *)
(* renamed in between), after calls that succeeded and after an            *)
(* allocate_new_page that failed half way.                                 *)
(***************************************************************************)
\* "Documents" and "Archive"
OtherNames == { ExampleName, <<65, 114, 99, 104, 105, 118, 101>> }

\* "My documents" and ""
OtherDescriptions == { ExampleDescription, <<>> }

\* last.row is the 9-byte name and the 32-byte description open was given
OpenWith(name, description) ==
    /\ LET o == open(file, LedgerName_from(name), LedgerDescription_new(description))
       IN /\ file' = o.file
          /\ map_len' = o.map_len
          /\ status' = IF o.kind = "Panic" THEN "panicked" ELSE "running"
          /\ last' = Result("open", o.kind, 0,
                            LedgerName_from(name) \o LedgerDescription_new(description))
    /\ flushed' = <<>>
    /\ UNCHANGED <<folder, borrows, schema, host, field, rids, written, direct_allocs, mutated, failed>>

NextOpenWith ==
    \/ Next
    \/ \E name \in OtherNames, description \in OtherDescriptions : OpenWith(name, description)
    \/ \E fault \in Faults \ {"encode"} : AllocateNewPageFault(fault)

SpecOpenWith == Init /\ [][NextOpenWith]_vars

(***************************************************************************)
(* The folder in which stores are opened by name: the store is dropped and *)
(* open is called with another name, which finds the file of that name in  *)
(* the folder or creates it (OpenOptions: read, write, create).            *)
(***************************************************************************)
\* "Documents", "Documents2", "Document", "Document " and "ab?"
Names ==
    { ExampleName,
      ExampleName \o <<50>>,
      SubSeq(ExampleName, 1, 8),
      SubSeq(ExampleName, 1, 8) \o <<32>>,
      <<97, 98, 63>> }

\* the store's file as the folder keeps it when the store is dropped, with
\* the history of its rows
StoreFile ==
    [file |-> file, rids |-> rids, written |-> written,
     direct_allocs |-> direct_allocs, mutated |-> mutated, failed |-> failed]

\* the file OpenOptions creates when the folder has none of that name
CreatedFile ==
    [file |-> <<>>, rids |-> <<>>, written |-> <<>>,
     direct_allocs |-> 0, mutated |-> FALSE, failed |-> FALSE]

\* last.row is the name the caller passed, before LedgerName::from
OpenNamed(name) ==
    /\ LET ledger_name == LedgerName_from(name)
           path == ledger_path(ledger_name)
           found == IF path = folder.path THEN StoreFile
                    ELSE IF path \in DOMAIN folder.closed THEN folder.closed[path]
                    ELSE CreatedFile
           o == open(found.file, ledger_name, LedgerDescription_new(ExampleDescription))
       IN /\ file' = o.file
          /\ map_len' = o.map_len
          /\ status' = IF o.kind = "Panic" THEN "panicked" ELSE "running"
          /\ last' = Result("open", o.kind, 0, name)
          /\ rids' = found.rids
          /\ written' = found.written
          /\ direct_allocs' = found.direct_allocs
          /\ mutated' = found.mutated
          /\ failed' = found.failed
          /\ folder' = [path |-> path,
                        closed |-> [p \in (DOMAIN folder.closed \cup {folder.path}) \ {path} |->
                                       IF p = folder.path THEN StoreFile
                                       ELSE folder.closed[p]]]
    /\ flushed' = <<>>
    /\ UNCHANGED <<borrows, schema, host, field>>

NextNamed ==
    \/ Insert([i \in 1..ROW_SZ |-> 1])
    \/ \E name \in Names : OpenNamed(name)

SpecNamed == Init /\ [][NextNamed]_vars

(***************************************************************************)
(* The store whose caller also asks the ledger header for the row count:   *)
(* access_header()?.num_rows(rows_per_page).                               *)
(***************************************************************************)
\* last.row is the fan-out the caller passed
HeaderNumRows(rows_per_page) ==
    /\ status = "running"
    /\ last' = Result("header_num_rows", "Ok", header_num_rows(file, rows_per_page),
                      <<rows_per_page>>)
    /\ flushed' = <<>>
    /\ UNCHANGED <<folder, borrows, schema, host, field, file, map_len, status, rids, written,
                   direct_allocs, mutated, failed>>

\* the fan-out of the row ids, and the ROWS_PER_PAGE that open passes
NextHeaderRows ==
    \/ Next
    \/ \E rows_per_page \in {max_rows_per_page, schema.rows_per_page} :
          HeaderNumRows(rows_per_page)

SpecHeaderRows == Init /\ [][NextHeaderRows]_vars

(***************************************************************************)
(* The store built for a little-endian and for a big-endian target.        *)
(***************************************************************************)
Hosts == {"le", "be"}

InitHosts == InitWith(Schemas, Hosts)

SpecHosts == InitHosts /\ [][Next]_vars

(***************************************************************************)
(* The store with its durability calls: sync_all, and write_page given a   *)
(* clone of the page it replaces, edited by the caller.                    *)
(***************************************************************************)
SyncAll ==
    /\ status = "running"
    /\ LET r == sync_all(map_len) IN
       /\ flushed' = r.flushed
       /\ last' = Result("sync_all", r.kind, 0, <<>>)
    /\ UNCHANGED <<folder, borrows, schema, host, field, file, map_len, status, rids, written,
                   direct_allocs, mutated, failed>>

\* clone_page(page_id), a row of the clone rewritten by the caller, and
\* write_page(page_id, clone); a caller whose clone_page was refused
\* offers a fresh page
WritePage(page_id, page_row_n, value) ==
    /\ status = "running"
    /\ LET c    == clone_page(file, map_len, page_id)
           o    == IF c.kind = "Ok" THEN _offset(page_row_n, slot_count(c.data), c.data)
                   ELSE NoOffset
           page == IF c.kind # "Ok" THEN SlottedPage_new
                   ELSE IF o.some THEN CopyFromSlice(c.data, o.off, value)
                   ELSE c.data
           r    == write_page(file, map_len, page_id, page)
       IN /\ file' = r.file
          /\ flushed' = r.flushed
          /\ status' = AfterCall(r.kind)
          /\ last' = Result("write_page", r.kind, page_id, value)
          /\ mutated' = (mutated \/ (r.kind = "Ok" /\ o.some))
          /\ written' = IF r.kind = "Ok" /\ o.some
                        THEN WrittenInPlace(to_row_id(page_id, page_row_n), value)
                        ELSE written
    /\ UNCHANGED <<folder, borrows, schema, host, field, map_len, rids, direct_allocs, failed>>

NextFlush ==
    \/ Next
    \/ SyncAll
    \/ \E page_id \in PageIds, page_row_n \in 0..max_rows_per_page, value \in RowValues :
          WritePage(page_id, page_row_n, value)

SpecFlush == Init /\ [][NextFlush]_vars

(***************************************************************************)
(* The store whose caller installs, with write_page, a page whose slot     *)
(* directory it has edited: SlottedPage::data is a public field.           *)
(***************************************************************************)
\* where the edited slot entry points: into the page header, and at a cell
\* that ends one byte beyond the page
EditedOffsets == {0, page_sz - ROW_SZ + 1}

\* clone_page(page_id), the entry of an occupied slot of the clone set to
\* off, and write_page(page_id, clone)
WriteSlot(page_id, page_row_n, off) ==
    /\ status = "running"
    /\ LET c == clone_page(file, map_len, page_id) IN
       /\ c.kind = "Ok"
       /\ page_row_n < slot_count(c.data)
       /\ LET page == CopyFromSlice(c.data, _get_slot_id(page_row_n), to_le_bytes(off))
              r    == write_page(file, map_len, page_id, page)
          IN /\ file' = r.file
             /\ flushed' = r.flushed
             /\ status' = AfterCall(r.kind)
             /\ last' = Result("write_page", r.kind, page_id, <<>>)
    /\ mutated' = TRUE
    /\ UNCHANGED <<folder, borrows, schema, host, field, map_len, rids, written, direct_allocs, failed>>

\* the caller edits the first slot of the first page
NextEdited ==
    \/ Next
    \/ \E off \in EditedOffsets : WriteSlot(0, 0, off)

SpecEdited == Init /\ [][NextEdited]_vars

(***************************************************************************)
(* The store and the references its caller holds.  A reference returned by *)
(* an access_* call borrows the store for as long as the caller keeps it:  *)
(* the signatures tie its lifetime to the receiver's, and the compiler     *)
(* accepts a call only if its receiver is compatible with the references   *)
(* still live.  A mapping is identified by its length, which every         *)
(* replacement changes.                                                    *)
(***************************************************************************)
\* mutant: allocate_new_page and insert declared on &self
receiver_shared(call) ==
    IF call \in {"access_row_mut", "access_page_mut"} THEN "&mut self" ELSE "&self"

\* the receiver each method declares
receiver(call) ==
    IF call \in {"insert", "allocate_new_page", "access_row_mut", "access_page_mut"}
    THEN "&mut self"
    ELSE "&self"

\* a call on &mut self needs every earlier reference dead; a call on &self
\* needs every live reference to be a shared one
borrow_check(live, call) ==
    IF receiver(call) = "&mut self" THEN live = {}
    ELSE \A b \in live : receiver(b.by) = "&self"

BorrowingCalls ==
    {"access_row", "access_row_mut", "access_page", "access_page_mut", "access_header"}

\* the outcome of the access_* call named by, for row id or page id n
borrowing_call(by, f, ml, n) ==
    CASE by = "access_row"      -> access_row(f, ml, n).kind
      [] by = "access_row_mut"  -> access_row_mut(f, ml, n).kind
      [] by = "access_page"     -> access_page(f, ml, n).kind
      [] by = "access_page_mut" -> access_page_mut(f, ml, n).kind
      [] OTHER                  -> "Ok"

\* an access_* call whose reference the caller keeps
Borrow(by, n) ==
    /\ status = "running"
    /\ borrow_check(borrows, by)
    /\ LET kind == borrowing_call(by, file, map_len, n) IN
       /\ status' = AfterCall(kind)
       /\ last' = Result(by, kind, n, <<>>)
       /\ borrows' = IF kind \in {"Ok", "Some"}
                     THEN borrows \cup {[by |-> by, map_len |-> map_len]}
                     ELSE borrows
    /\ flushed' = <<>>
    /\ UNCHANGED <<folder, schema, host, field, file, map_len, rids, written, direct_allocs,
                   mutated, failed>>

\* the caller lets go of a reference
Release(b) ==
    /\ borrows' = borrows \ {b}
    /\ UNCHANGED <<folder, schema, host, field, file, map_len, status, last, rids, written,
                   direct_allocs, mutated, failed, flushed>>

BorrowCheckedInsert(value) == borrow_check(borrows, "insert") /\ Insert(value)

BorrowCheckedAllocate == borrow_check(borrows, "allocate_new_page") /\ AllocateNewPage

NextBorrow ==
    \/ \E value \in RowValues : BorrowCheckedInsert(value)
    \/ BorrowCheckedAllocate
    \/ \E by \in BorrowingCalls, n \in RowIds : Borrow(by, n)
    \/ \E b \in borrows : Release(b)

SpecBorrow == Init /\ [][NextBorrow]_vars

(***************************************************************************)
(* The store whose caller also inserts into a page of its choice:          *)
(* access_page_mut(page_id)?.insert_row(&value).                           *)
(***************************************************************************)
PageResult(op, kind, n, row, page_id) ==
    [op |-> op, kind |-> kind, n |-> n, row |-> row, page_id |-> page_id]

InsertRow(page_id, value) ==
    /\ status = "running"
    /\ LET p == access_page_mut(file, map_len, page_id) IN
       IF p.kind # "Ok"
       THEN /\ file' = file
            /\ status' = AfterCall(p.kind)
            /\ last' = PageResult("insert_row", p.kind, 0, value, page_id)
       ELSE LET r == insert_row(p.data, value, TRUE) IN
            /\ file' = StorePage(file, page_id, r.data)
            /\ status' = AfterCall(r.kind)
            /\ last' = PageResult("insert_row", r.kind, r.n, value, page_id)
    /\ flushed' = <<>>
    /\ UNCHANGED <<folder, borrows, schema, host, field, map_len, rids, written, direct_allocs,
                   mutated, failed>>

\* the calls that write: the page-level insert, the allocation, and the two
\* in-place writes
NextPage ==
    \/ \E page_id \in PageIds, value \in RowValues : InsertRow(page_id, value)
    \/ AllocateNewPage
    \/ \E row_id \in RowIds, value \in RowValues : AccessRowMut(row_id, value)
    \/ \E page_id \in PageIds, page_row_n \in 0..max_rows_per_page :
          SetRowDeleted(page_id, page_row_n)

SpecPage == InitFault /\ [][NextPage]_vars

(***************************************************************************)
(* RowQuery's two functions on their own, over page ids from the whole     *)
(* u32 range.                                                              *)
(***************************************************************************)
\* page ids: small ones, the ones around 2^31 and the largest
PageIdSamples ==
    { [hi |-> h, lo |-> l] : h \in {0, 1, 2, 32767, 32768, 65535},
                             l \in {0, 1, 2, 32768, 65534, 65535} }

\* from_row_id(to_row_id(page_id, row_n)): last.row is the page id and slot
\* given, followed by the page id and slot that came back
RowIdRoundTrip(page_id, row_n, overflow_checks) ==
    /\ status = "running"
    /\ LET t == to_row_id_u32(page_id, row_n, overflow_checks)
           q == from_row_id_u32(t.row_id)
           kind == IF t.kind = "Ok" /\ q.ok THEN "Ok" ELSE "Panic"
       IN /\ status' = AfterCall(kind)
          /\ last' = Result("row_id_round_trip", kind, row_n,
                            << page_id.hi, page_id.lo, row_n,
                               q.page_id.hi, q.page_id.lo, q.page_row_n >>)
    /\ flushed' = <<>>
    /\ UNCHANGED <<folder, borrows, schema, host, field, file, map_len, rids, written, direct_allocs, mutated, failed>>

NextRowId ==
    \E page_id \in PageIdSamples, row_n \in 0..(max_rows_per_page - 1),
       overflow_checks \in BOOLEAN :
        RowIdRoundTrip(page_id, row_n, overflow_checks)

SpecRowId == Init /\ [][NextRowId]_vars

(***************************************************************************)
(* The generated accessors of a String field on their own: fields of 3     *)
(* and of 300 bytes, values around the field sizes and around 256.         *)
(***************************************************************************)
StringMaxLens == {3, 300}

StringValues ==
    { [i \in 1..n |-> b] : n \in {0, 1, 2, 3, 4, 255, 256, 257, 300, 301}, b \in {97, 98} }

SetString(val) ==
    /\ status = "running"
    /\ LET r == string_set(field, val) IN
       /\ field' = r.field
       /\ last' = Result("set_string", r.kind, Len(val), val)
    /\ flushed' = <<>>
    /\ UNCHANGED <<folder, borrows, schema, host, file, map_len, status, rids, written, direct_allocs,
                   mutated, failed>>

GetString ==
    /\ status = "running"
    /\ LET r == string_get(field) IN
       last' = Result("get_string", r.kind, Len(r.val), r.val)
    /\ flushed' = <<>>
    /\ UNCHANGED <<folder, borrows, schema, host, field, file, map_len, status, rids, written,
                   direct_allocs, mutated, failed>>

InitString == InitWithField(Schemas, {"le"}, StringMaxLens)

NextString ==
    \/ \E val \in StringValues : SetString(val)
    \/ GetString

SpecString == InitString /\ [][NextString]_vars

(***************************************************************************)
(* Notions the properties share.                                           *)
(***************************************************************************)
\* the ledger was created by open and has seen successful inserts only
\* (reads and in-place writes aside)
FreshInsertsOnly == direct_allocs = 0 /\ ~failed

NumInserted == Len(rids)

\* the bytes of page page_id, read straight from the file
PageBytes(page_id) ==
    Slice(file, _get_page_data_start(page_id), _get_page_data_start(page_id) + page_sz)

AllocatedPageIds == 0..(num_pages(file) - 1)

(***************************************************************************)
(* C1.  From a freshly created ledger, the k-th successful insert          *)
(* (k = 0..N-1) returns row id exactly k, and num_rows() returns N after   *)
(* N successful inserts.                                                   *)
(***************************************************************************)
C1_RowIdsDense ==
    FreshInsertsOnly =>
        /\ \A k \in 1..NumInserted : rids[k] = k - 1
        /\ num_rows(file, map_len) = [kind |-> "Ok", n |-> NumInserted]

\* an insert has just rolled over to a second page and returned its row id
C1_Witness ==
    /\ FreshInsertsOnly
    /\ last.op = "insert" /\ last.kind = "Ok"
    /\ NumInserted > max_rows_per_page
    /\ last.n = NumInserted - 1

(***************************************************************************)
(* C2.  With no in-place write in between, every row id returned by a      *)
(* successful insert reads back, through access_row, Some(x) with x the    *)
(* value that insert was given; this stays so in every later state, also   *)
(* after inserts that allocate a page and remap the file.                  *)
(***************************************************************************)
C2_ReadBack ==
    (~mutated /\ ~failed) =>
        /\ \A k \in 1..NumInserted :
              LET r == access_row(file, map_len, rids[k]) IN
              r.kind = "Some" /\ r.row = written[k]
        /\ \A rid \in 0..(NumInserted - 1) :
              access_row(file, map_len, rid).kind = "Some"

\* row 0 is read after a later insert has allocated page 1 and remapped
C2_Witness ==
    /\ ~mutated /\ ~failed
    /\ NumInserted > max_rows_per_page
    /\ num_pages(file) > 1
    /\ last = Result("access_row", "Some", 0, written[1])

(***************************************************************************)
(* C3.  Every allocated page keeps its header consistent:                  *)
(* PAGE_HEADER_SZ + slot_count*4 = free_start, free_end + slot_count*S =   *)
(* PAGE_SZ and free_start <= free_end <= PAGE_SZ, so free_space() never    *)
(* underflows.                                                             *)
(***************************************************************************)
C3_PageHeaderInvariant ==
    \A page_id \in AllocatedPageIds :
        /\ access_page(file, map_len, page_id).kind = "Ok"
        /\ LET d == PageBytes(page_id) IN
           /\ PAGE_HEADER_SZ + slot_count(d) * 4 = free_start(d)
           /\ free_end(d) + slot_count(d) * ROW_SZ = page_sz
           /\ free_start(d) <= free_end(d)
           /\ free_end(d) <= page_sz
           /\ ~Underflows(free_end(d), free_start(d))

\* a full page, a partly filled one, and an in-place write behind us
C3_Witness ==
    /\ num_pages(file) = 2
    /\ slot_count(PageBytes(0)) = max_rows_per_page
    /\ slot_count(PageBytes(1)) >= 1
    /\ mutated

(***************************************************************************)
(* C4.  The ledger header always has num_pages >= 1 and                    *)
(* page_cursor < num_pages.                                                *)
(***************************************************************************)
C4_HeaderInvariant ==
    /\ num_pages(file) >= 1
    /\ page_cursor(file) < num_pages(file)

\* the cursor has moved to the second page
C4_Witness ==
    /\ page_cursor(file) = 1
    /\ num_pages(file) = 2
    /\ last.op = "insert"

(***************************************************************************)
(* C5.  Between calls the file length is                                   *)
(* sizeof(LedgerHeader) + num_pages * PAGE_SZ.                             *)
(***************************************************************************)
C5_FileLength == Len(file) = LEDGER_HEADER_SZ + num_pages(file) * page_sz

\* a direct allocate_new_page has just grown the file
C5_Witness ==
    /\ last = Result("allocate_new_page", "Ok", 1, <<>>)
    /\ Len(file) = LEDGER_HEADER_SZ + 2 * page_sz

(***************************************************************************)
(* C6.  After N successful inserts into a fresh ledger,                    *)
(* num_pages = ceil(N / max_rows_per_page) and the last page holds         *)
(* N mod max_rows_per_page rows, or is full when that is 0.                *)
(***************************************************************************)
CeilDiv(a, b) == (a + b - 1) \div b

LastPageCount(n) ==
    IF n % max_rows_per_page # 0 THEN n % max_rows_per_page ELSE max_rows_per_page

PageCountLaw(n) ==
    /\ num_pages(file) = CeilDiv(n, max_rows_per_page)
    /\ num_pages(file) >= 1
    /\ slot_count(PageBytes(num_pages(file) - 1)) = LastPageCount(n)

\* C6 as stated, for every N, N = 0 included
C6_Original == FreshInsertsOnly => PageCountLaw(NumInserted)

\* C6 as amended: the law for N >= 1; a ledger without rows has one page,
\* and that page is empty
C6_PageCount ==
    FreshInsertsOnly =>
        IF NumInserted >= 1
        THEN PageCountLaw(NumInserted)
        ELSE num_pages(file) = 1 /\ slot_count(PageBytes(0)) = 0

\* one row beyond a full page: two pages, the last holding N mod max_rows_per_page
C6_Witness ==
    /\ FreshInsertsOnly
    /\ NumInserted = 2 * max_rows_per_page - 1
    /\ NumInserted > max_rows_per_page
    /\ num_pages(file) = 2

(***************************************************************************)
(* C7.  Page rollover on a fresh ledger: insert number max_rows_per_page   *)
(* is stored on page 0 at slot max_rows_per_page - 1 without allocating;   *)
(* the next insert is stored on page 1 at slot 0, returns row id           *)
(* max_rows_per_page and leaves num_pages = 2, page 0 still holding        *)
(* max_rows_per_page rows.                                                 *)
(***************************************************************************)
C7_Rollover ==
    FreshInsertsOnly =>
        /\ NumInserted = max_rows_per_page =>
              /\ num_pages(file) = 1
              /\ page_cursor(file) = 0
              /\ rids[max_rows_per_page] = max_rows_per_page - 1
              /\ slot_count(PageBytes(0)) = max_rows_per_page
              /\ page_access_row(PageBytes(0), max_rows_per_page - 1).kind = "Some"
              /\ page_access_row(PageBytes(0), max_rows_per_page - 1).row
                    = written[max_rows_per_page]
        /\ NumInserted = max_rows_per_page + 1 =>
              /\ num_pages(file) = 2
              /\ page_cursor(file) = 1
              /\ rids[max_rows_per_page + 1] = max_rows_per_page
              /\ slot_count(PageBytes(0)) = max_rows_per_page
              /\ slot_count(PageBytes(1)) = 1
              /\ page_access_row(PageBytes(1), 0).kind = "Some"
              /\ page_access_row(PageBytes(1), 0).row = written[max_rows_per_page + 1]

\* the insert after the one that filled page 0 has just returned
C7_Witness ==
    /\ FreshInsertsOnly
    /\ NumInserted = max_rows_per_page + 1
    /\ last = Result("insert", "Ok", max_rows_per_page, written[NumInserted])

OutOfRangeAnswers ==
    \A row_id \in RowIds :
        LET q == from_row_id(row_id) IN
        /\ q.ok
        /\ q.page_id >= num_pages(file) =>
              /\ access_row(file, map_len, row_id).kind = "PageIdOutOfBounds"
              /\ access_row_mut(file, map_len, row_id).kind = "PageIdOutOfBounds"
        /\ (q.page_id < num_pages(file)
              /\ q.page_row_n >= slot_count(PageBytes(q.page_id))) =>
              /\ access_row(file, map_len, row_id).kind \in {"None", "RowNotFound"}
              /\ access_row_mut(file, map_len, row_id).kind \in {"None", "RowNotFound"}

OutOfRangeFrame ==
    (/\ last'.op \in {"access_row", "access_row_mut"}
     /\ last'.kind \in {"PageIdOutOfBounds", "None", "RowNotFound"})
        => file' = file /\ map_len' = map_len

C9_OutOfRange == []OutOfRangeAnswers /\ [][OutOfRangeFrame]_vars

\* access_row_mut has just refused a free slot of a page that holds a row
C9_Witness ==
    /\ last.op = "access_row_mut"
    /\ last.kind = "RowNotFound"
    /\ from_row_id(last.n).page_id < num_pages(file)
    /\ slot_count(PageBytes(from_row_id(last.n).page_id)) >= 1

(***************************************************************************)
(* C10.  No partial-state errors: whenever insert, allocate_new_page,      *)
(* access_row or access_row_mut returns an error to the caller, the ledger *)
(* header (num_pages, page_cursor), every page header, every slot entry,   *)
(* every cell and the file length are what they were before the call.      *)
(* This includes an insert whose retry on the freshly allocated page also  *)
(* returns NoSpace, an allocate_new_page whose file grow or remap fails,   *)
(* and an insert whose encode fails.                                       *)
(***************************************************************************)
ErrorKinds ==
    {"NoSpace", "RkyvError", "StdIoError", "PageIdOutOfBounds", "RowNotFound",
     "RowIdOutOfBounds"}

ReturnsError ==
    /\ last'.op \in {"insert", "allocate_new_page", "access_row", "access_row_mut"}
    /\ last'.kind \in ErrorKinds

C10_NoPartialState == [][ReturnsError => file' = file]_vars

(***************************************************************************)
(* C11.  NoSpace is recovered locally by insert: when insert_row on the    *)
(* page named by page_cursor returns NoSpace, insert allocates exactly one *)
(* page, increments page_cursor by exactly one, retries insert_row on the  *)
(* page now named by page_cursor and returns                               *)
(* page_cursor * max_rows_per_page + slot; NoSpace reaches the caller only *)
(* if that single retry also returns NoSpace, and no second page is        *)
(* allocated.  When the first insert_row succeeds nothing is allocated.    *)
(***************************************************************************)
\* the bytes of page page_id of the file image f
PageOf(f, page_id) ==
    Slice(f, _get_page_data_start(page_id), _get_page_data_start(page_id) + page_sz)

InsertRecovers ==
    (last'.op = "insert" /\ last'.kind \in {"Ok", "NoSpace"}) =>
        LET cur == page_cursor(file) IN
        IF ~no_space(PageOf(file, cur))
        THEN /\ last'.kind = "Ok"
             /\ num_pages(file') = num_pages(file)
             /\ page_cursor(file') = cur
             /\ Len(file') = Len(file)
             /\ last'.n = cur * max_rows_per_page + slot_count(PageOf(file, cur))
        ELSE /\ num_pages(file') = num_pages(file) + 1
             /\ Len(file') = Len(file) + page_sz
             /\ page_cursor(file') = cur + 1
             /\ PageOf(file', cur) = PageOf(file, cur)
             /\ last'.kind = "Ok" =>
                   LET slot == slot_count(PageOf(file', cur + 1)) - 1 IN
                   /\ last'.n = (cur + 1) * max_rows_per_page + slot
                   /\ page_access_row(PageOf(file', cur + 1), slot).row = last'.row
             /\ last'.kind = "NoSpace" =>
                   /\ no_space(PageOf(file', cur + 1))
                   /\ PageOf(file', cur + 1) = SlottedPage_new

C11_NoSpaceRecovered == [][InsertRecovers]_vars

\* an insert met a full page 0 behind an in-place write, and has stored its
\* row at slot 0 of the page it allocated
C11_Witness ==
    /\ last.op = "insert" /\ last.kind = "Ok"
    /\ mutated
    /\ page_cursor(file) = 1
    /\ last.n = max_rows_per_page
    /\ page_access_row(PageOf(file, 1), 0).row = last.row

(***************************************************************************)
(* C12.  Persistence round-trip: after any sequence of inserts and         *)
(* in-place mutations, dropping the store and opening the same file again  *)
(* yields a store with the same num_rows() and the same access_row(rid)    *)
(* for every rid < num_rows(); open on the existing file creates no page   *)
(* and does not reset the header.                                          *)
(***************************************************************************)
ReopenKeeps ==
    last'.op = "open" =>
        /\ last'.kind = "Ok"
        /\ file' = file
        /\ num_pages(file') = num_pages(file)
        /\ page_cursor(file') = page_cursor(file)
        /\ num_rows(file', map_len') = num_rows(file, map_len)
        /\ \A rid \in 0..(num_rows(file, map_len).n - 1) :
              access_row(file', map_len', rid) = access_row(file, map_len, rid)
        /\ \A k \in 1..NumInserted :
              access_row(file', map_len', rids[k]).row = written[k]

C12_Persistence == [][ReopenKeeps]_vars

\* reopened with two pages of rows, one of them rewritten in place
C12_Witness ==
    /\ last.op = "open" /\ last.kind = "Ok"
    /\ status = "running"
    /\ num_pages(file) = 2
    /\ NumInserted > max_rows_per_page
    /\ mutated
    /\ num_rows(file, map_len).n = NumInserted

(***************************************************************************)
(* C13.  Row-id arithmetic round-trip, all arithmetic on 32-bit unsigned   *)
(* integers: from_row_id(to_row_id(pid, slot)) = (pid, slot) for every     *)
(* slot < max_rows_per_page.                                               *)
(***************************************************************************)
RoundTripDone == last.op = "row_id_round_trip"

RoundTripGiven == SubSeq(last.row, 1, 3)

RoundTripBack == SubSeq(last.row, 4, 6)

\* pid * max_rows_per_page + slot <= u32::MAX, for pid = last.row[1] * 2^16 +
\* last.row[2] and slot = last.row[3]
RoundTripFits ==
    last.row[1] * max_rows_per_page
        + (last.row[2] * max_rows_per_page + last.row[3]) \div 65536 < 65536

\* C13 as stated, for every u32 page id
C13_Original ==
    RoundTripDone => (last.kind = "Ok" /\ RoundTripBack = RoundTripGiven)

\* C13 as amended: the round trip holds exactly for the page ids whose row
\* id fits in a u32; beyond them the call panics or returns another pair
C13_RoundTrip ==
    RoundTripDone =>
        IF RoundTripFits
        THEN last.kind = "Ok" /\ RoundTripBack = RoundTripGiven
        ELSE last.kind = "Panic" \/ RoundTripBack # RoundTripGiven

\* the largest row id of a two-rows-per-page ledger has made the round trip
C13_Witness ==
    /\ RoundTripDone /\ last.kind = "Ok"
    /\ max_rows_per_page = 2
    /\ RoundTripGiven = <<32767, 65535, 1>>
    /\ RoundTripBack = <<32767, 65535, 1>>

(***************************************************************************)
(* C14.  In-place mutation: after access_row_mut(rid) succeeds and the     *)
(* caller changes the row through the returned exclusive reference, every  *)
(* later access_row(rid), in the same store and after drop and reopen,     *)
(* returns the changed value, while num_rows(), the ledger header, every   *)
(* page header, every slot entry and every other row's cell are unchanged. *)
(***************************************************************************)
\* every row reads back what was last written to it
ReadsLastWritten ==
    \A k \in 1..NumInserted :
        LET r == access_row(file, map_len, rids[k]) IN
        r.kind = "Some" /\ r.row = written[k]

\* a successful access_row_mut and the write through it change the bytes of
\* that row's cell and nothing else, and the cell lies in the cell area
MutationFrame ==
    (last'.op = "access_row_mut" /\ last'.kind = "Some") =>
        LET r    == access_row_mut(file, map_len, last'.n)
            page == PageOf(file, r.pid)
            cell == _get_page_data_start(r.pid) + r.off
        IN /\ access_row(file', map_len', last'.n).row = last'.row
           /\ num_rows(file', map_len') = num_rows(file, map_len)
           /\ Len(file') = Len(file)
           /\ free_end(page) <= r.off /\ r.off + ROW_SZ <= page_sz
           /\ SubSeq(file', 1, cell) = SubSeq(file, 1, cell)
           /\ SubSeq(file', cell + ROW_SZ + 1, Len(file))
                 = SubSeq(file, cell + ROW_SZ + 1, Len(file))
           /\ \A rid \in (0..(num_rows(file, map_len).n - 1)) \ {last'.n} :
                 access_row(file', map_len', rid) = access_row(file, map_len, rid)

C14_InPlaceMutation == []ReadsLastWritten /\ [][MutationFrame]_vars

\* a row other than the first has just been rewritten in place, next to
\* rows that keep what they held
C14_Witness ==
    /\ last.op = "access_row_mut" /\ last.kind = "Some"
    /\ last.n >= 1
    /\ NumInserted > last.n + 1
    /\ access_row(file, map_len, last.n).row = last.row
    /\ access_row(file, map_len, 0).row # last.row

(***************************************************************************)
(* C15.  set_row_deleted(slot_n) for an occupied slot overwrites that      *)
(* slot's cell with the bytes of T::deleted_row(slot_n) when that sentinel *)
(* is non-empty, and is a no-op that returns Ok when the sentinel is       *)
(* empty; it never aborts.                                                 *)
(***************************************************************************)
\* page page_id of file image f after slot page_row_n's cell was overwritten
\* with bytes
CellOverwritten(f, page_id, page_row_n, bytes) ==
    LET page == PageOf(f, page_id)
        o == _offset(page_row_n, slot_count(page), page)
    IN CopyFromSlice(f, _get_page_data_start(page_id) + o.off, bytes)

SentinelOrNoOp ==
    last'.op = "set_row_deleted" =>
        /\ last'.kind \in {"Ok", "RowIdOutOfBounds", "PageIdOutOfBounds"}
        /\ status' = "running"
        /\ deleted_row(last'.n) = <<>> => file' = file
        /\ (last'.kind = "Ok" /\ deleted_row(last'.n) # <<>>) =>
              \E page_id \in AllocatedPageIds :
                  /\ last'.n < slot_count(PageOf(file, page_id))
                  /\ file' = CellOverwritten(file, page_id, last'.n, deleted_row(last'.n))
                  /\ page_access_row(PageOf(file', page_id), last'.n).row
                        = deleted_row(last'.n)

C15_SetRowDeleted == [][SentinelOrNoOp]_vars

(***************************************************************************)
(* C16.  Deletes are purely logical: set_row_deleted on any slot, in range *)
(* or not, leaves every page's slot_count, free_start, free_end and        *)
(* slot-directory entries unchanged, leaves every other cell unchanged,    *)
(* and leaves num_rows() and the row id to (page, slot) mapping of every   *)
(* row unchanged; for slot_n >= slot_count it returns RowIdOutOfBounds and *)
(* changes nothing.                                                        *)
(***************************************************************************)
\* header and slot directory of a page: the bytes before free_start
Directory(page) == SubSeq(page, 1, free_start(page))

DeleteFrame ==
    last'.op = "set_row_deleted" =>
        /\ Len(file') = Len(file)
        /\ SubSeq(file', 1, LEDGER_HEADER_SZ) = SubSeq(file, 1, LEDGER_HEADER_SZ)
        /\ num_rows(file', map_len') = num_rows(file, map_len)
        /\ \A page_id \in AllocatedPageIds :
              Directory(PageOf(file', page_id)) = Directory(PageOf(file, page_id))
        /\ \A rid \in RowIds :
              LET before == access_row(file, map_len, rid)
                  after  == access_row(file', map_len', rid)
              IN /\ after.kind = before.kind
                 /\ after.pid = before.pid
                 /\ after.off = before.off
        /\ last'.kind # "Ok" => file' = file
        /\ last'.kind = "Ok" =>
              \E page_id \in AllocatedPageIds :
                  LET o == _offset(last'.n, slot_count(PageOf(file, page_id)),
                                   PageOf(file, page_id))
                      cell == _get_page_data_start(page_id) + o.off
                  IN /\ o.some
                     /\ SubSeq(file', 1, cell) = SubSeq(file, 1, cell)
                     /\ SubSeq(file', cell + ROW_SZ + 1, Len(file))
                           = SubSeq(file, cell + ROW_SZ + 1, Len(file))
        /\ \A page_id \in AllocatedPageIds :
              (last'.n >= slot_count(PageOf(file, page_id)) /\ last'.kind # "Ok") =>
                  /\ set_row_deleted(PageOf(file, page_id), last'.n).kind = "RowIdOutOfBounds"
                  /\ file' = file

C16_LogicalDelete == [][DeleteFrame]_vars

\* a row has just been overwritten with the sentinel while another row,
\* on another page, keeps its value
C16_Witness ==
    /\ last.op = "set_row_deleted" /\ last.kind = "Ok"
    /\ NumInserted >= 2
    /\ \E k \in 1..NumInserted : written[k] = deleted_row(last.n)
    /\ \E k \in 1..NumInserted : written[k] # deleted_row(last.n)
    /\ ReadsLastWritten

(***************************************************************************)
(* C17.  Durability is caller-controlled: insert (an insert that allocates *)
(* a page included), access_row_mut and set_row_deleted never flush the    *)
(* mapping; the only operations that flush are sync_all, the whole         *)
(* mapping, and write_page, exactly the byte range of the page it          *)
(* overwrote.                                                              *)
(***************************************************************************)
FlushOnRequestOnly ==
    /\ last'.op \notin {"sync_all", "write_page"} => flushed' = <<>>
    /\ last'.op = "sync_all" => flushed' = << <<0, map_len'>> >>
    /\ last'.op = "write_page" =>
          IF last'.kind = "Ok"
          THEN /\ flushed' = << <<_get_page_data_start(last'.n), page_sz>> >>
               /\ Len(file') = Len(file)
               /\ SubSeq(file', 1, flushed'[1][1]) = SubSeq(file, 1, flushed'[1][1])
               /\ SubSeq(file', flushed'[1][1] + flushed'[1][2] + 1, Len(file))
                     = SubSeq(file, flushed'[1][1] + flushed'[1][2] + 1, Len(file))
          ELSE flushed' = <<>> /\ file' = file

C17_CallerControlsDurability == [][FlushOnRequestOnly]_vars

\* write_page has just replaced the second page with a clone in which the
\* caller rewrote the row, and flushed that page's range only
C17_Witness ==
    /\ last.op = "write_page" /\ last.kind = "Ok" /\ last.n = 1
    /\ flushed = << <<_get_page_data_start(1), page_sz>> >>
    /\ NumInserted > max_rows_per_page
    /\ page_access_row(PageOf(file, 1), 0).row = last.row
    /\ written[max_rows_per_page + 1] = last.row

(***************************************************************************)
(* C18.  access_row(rid) is pure: for every rid, valid or not, and every   *)
(* reachable ledger state, the call leaves the ledger header, all pages    *)
(* and the file length unchanged, and two consecutive calls with the same  *)
(* rid return the same result.                                             *)
(***************************************************************************)
AccessRowPure ==
    last'.op = "access_row" =>
        LET again == access_row(file', map_len', last'.n) IN
        /\ file' = file
        /\ map_len' = map_len
        /\ flushed' = <<>>
        /\ last'.kind # "Panic" =>
              /\ again.kind = last'.kind
              /\ again.row = last'.row

StringSetterLaw ==
    last'.op = "set_string" =>
        IF Len(last'.row) = 0 \/ Len(last'.row) > Len(field.bytes)
        THEN last'.kind = "Error" /\ field' = field
        ELSE /\ last'.kind = "Ok"
             /\ string_get(field').kind = "Ok"
             /\ string_get(field').val = last'.row

C19_StringSetter == [][StringSetterLaw]_vars

(***************************************************************************)
(* C20.  Page-level access_row(slot_n) with slot_n >= slot_count: the      *)
(* claim is that it returns the value None (Ok(None)), not an error.       *)
(***************************************************************************)
\* what SlottedPage::access_row answers for the slots at and beyond
\* slot_count, on every allocated page
BeyondSlotCount ==
    UNION { { page_access_row(PageOf(file, page_id), slot_n).kind :
                slot_n \in { s \in 0..(max_rows_per_page + 1) :
                               s >= slot_count(PageOf(file, page_id)) } } :
            page_id \in AllocatedPageIds }

\* C20 as stated
C20_Original == BeyondSlotCount \subseteq {"None"}

\* C20 as amended: the answer is the error RowNotFound, never Ok(None)
C20_RowNotFound == BeyondSlotCount = {"RowNotFound"}

\* access_row has just been refused for the slot after the last one of a
\* page that holds rows
C20_Witness ==
    /\ last.op = "access_row" /\ last.kind = "RowNotFound"
    /\ from_row_id(last.n).page_id < num_pages(file)
    /\ slot_count(PageOf(file, from_row_id(last.n).page_id)) >= 1
    /\ from_row_id(last.n).page_row_n
          = slot_count(PageOf(file, from_row_id(last.n).page_id))


(***************************************************************************)
(* C21.  Checked row access validates the cell location: for a slot below  *)
(* slot_count, access_row and access_row_mut read the offset off from the  *)
(* slot directory and return RowNotFound unless [off, off + S) lies inside *)
(* [free_end, PAGE_SZ), whatever the page holds, a page installed with     *)
(* write_page whose slot entry points outside the cell area included.      *)
(***************************************************************************)
\* the slot entry of an occupied slot of page d, as written by insert_row
SlotEntry(d, page_row_n) ==
    from_le_bytes(Slice(d, _get_slot_id(page_row_n), _get_slot_id(page_row_n) + 4))

InCellArea(d, off) == free_end(d) <= off /\ off + ROW_SZ <= page_sz

CellValidated ==
    last'.op \in {"access_row", "access_row_mut"} =>
        LET q == from_row_id(last'.n)
            p == access_page(file, map_len, q.page_id)
        IN (/\ q.ok
            /\ p.kind = "Ok"
            /\ q.page_row_n < slot_count(p.data)
            /\ ~InCellArea(p.data, SlotEntry(p.data, q.page_row_n)))
           => last'.kind = "RowNotFound"

C21_CellValidated == [][CellValidated]_vars


(***************************************************************************)
(* C22.  No borrow spans an allocation: the mapping is replaced (by        *)
(* allocate_new_page, directly or through insert) only when no reference   *)
(* returned by access_row, access_row_mut, access_page, access_page_mut or *)
(* access_header is still live; equivalently, no live reference ever       *)
(* points into a mapping that has been dropped.                            *)
(***************************************************************************)
NoDanglingBorrow == \A b \in borrows : b.map_len = map_len

ReplacedWhenUnborrowed == map_len' # map_len => borrows = {}

C22_NoBorrowSpansAllocation == []NoDanglingBorrow /\ [][ReplacedWhenUnborrowed]_vars

\* a reference is live, into a mapping that replaced an earlier one
C22_Witness ==
    /\ map_len > LEDGER_HEADER_SZ + page_sz
    /\ borrows # {}
    /\ \A b \in borrows : b.map_len = map_len


(***************************************************************************)
(* C23.  Pages are never freed and nothing is reclaimed: across any        *)
(* sequence of insert, allocate_new_page, access_row_mut and               *)
(* set_row_deleted, num_pages, page_cursor, the file length and every      *)
(* page's slot_count never decrease, and a page id that was valid once     *)
(* stays valid.                                                            *)
(***************************************************************************)
NothingReclaimed ==
    /\ num_pages(file') >= num_pages(file)
    /\ page_cursor(file') >= page_cursor(file)
    /\ Len(file') >= Len(file)
    /\ \A page_id \in PageIds :
          access_page(file, map_len, page_id).kind = "Ok" =>
              /\ access_page(file', map_len', page_id).kind = "Ok"
              /\ slot_count(PageOf(file', page_id)) >= slot_count(PageOf(file, page_id))

C23_NothingReclaimed == [][NothingReclaimed]_vars

\* rows were deleted and overwritten in place, and the ledger has grown
C23_Witness ==
    /\ last.op = "set_row_deleted"
    /\ last.kind = "Ok"
    /\ num_pages(file) = MaxPages
    /\ page_cursor(file) >= 1
    /\ \E i \in 1..Len(written) : written[i] = deleted_row(0)
    /\ \E i \in 1..Len(written) : written[i] \in RowValues


(***************************************************************************)
(* C24.  A successful insert_row on a page with header (slot_count = k,    *)
(* free_start = f, free_end = e) returns k and leaves the page with        *)
(* slot_count = k + 1, free_start = 16 + 4k + 4, free_end = e - S, the     *)
(* 4-byte slot entry at offset 16 + 4k holding e - S, and the S bytes at   *)
(* [e - S, e) holding encode(value); every other byte of the page (earlier *)
(* slot entries and earlier cells) is unchanged.                           *)
(***************************************************************************)
InsertRowEffect ==
    (last'.op = "insert_row" /\ last'.kind = "Ok") =>
        LET d  == PageOf(file, last'.page_id)
            d2 == PageOf(file', last'.page_id)
            k  == slot_count(d)
            e  == free_end(d)
        IN /\ last'.n = k
           /\ slot_count(d2) = k + 1
           /\ free_start(d2) = 16 + 4 * k + 4
           /\ free_end(d2) = e - ROW_SZ
           /\ Slice(d2, 16 + 4 * k, 16 + 4 * k + 4) = to_le_bytes(e - ROW_SZ)
           /\ Slice(d2, e - ROW_SZ, e) = to_bytes(last'.row)
           /\ Slice(d2, 0, 4) = Slice(d, 0, 4)
           /\ Slice(d2, 16, 16 + 4 * k) = Slice(d, 16, 16 + 4 * k)
           /\ Slice(d2, 16 + 4 * k + 4, e - ROW_SZ) = Slice(d, 16 + 4 * k + 4, e - ROW_SZ)
           /\ Slice(d2, e, page_sz) = Slice(d, e, page_sz)

C24_InsertRowEffect == [][InsertRowEffect]_vars

\* insert_row has just filled the second slot of a page both of whose cells
\* differ from the row it was given
C24_Witness ==
    /\ last.op = "insert_row"
    /\ last.kind = "Ok"
    /\ last.n = 1
    /\ page_access_row(PageOf(file, last.page_id), 0).row # last.row
    /\ page_access_row(PageOf(file, last.page_id), 1).row = last.row


(***************************************************************************)
(* C25.  insert_row returns NoSpace exactly when free_space <= S or        *)
(* free_end - S < free_start + 4, that is exactly when                     *)
(* free_end - free_start < S + 4, and in that case the page header, the    *)
(* slot directory and the cells are unchanged.                             *)
(***************************************************************************)
\* insert_row was called on a page that exists
InsertRowCalled == last'.op = "insert_row" /\ last'.kind # "PageIdOutOfBounds"

NoSpaceLaw ==
    InsertRowCalled =>
        LET d == PageOf(file, last'.page_id) IN
        /\ last'.kind = "NoSpace" <=>
               (free_space(d) <= ROW_SZ \/ free_end(d) - ROW_SZ < free_start(d) + 4)
        /\ last'.kind = "NoSpace" <=> free_end(d) - free_start(d) < ROW_SZ + 4
        /\ last'.kind = "NoSpace" => file' = file

C25_NoSpace == [][NoSpaceLaw]_vars

\* insert_row has refused a row by the second test alone: the free space
\* is larger than a row but not than a row and its slot entry
C25_Witness ==
    /\ last.op = "insert_row"
    /\ last.kind = "NoSpace"
    /\ free_space(PageOf(file, last.page_id)) > ROW_SZ
    /\ slot_count(PageOf(file, last.page_id)) >= 1

(***************************************************************************)
(* C26.  Page capacity matches the row-id fan-out: on a freshly            *)
(* initialised page, insert_row succeeds for exactly the first             *)
(* max_rows_per_page = floor((PAGE_SZ - PAGE_HEADER_SZ) / (S + 4)) calls   *)
(* and returns NoSpace on every call after that, so a slot index returned  *)
(* by insert_row is always < max_rows_per_page.                            *)
(***************************************************************************)
\* every page starts as SlottedPage::new() and its slot_count counts the
\* successful insert_row calls on it
CapacityLaw ==
    InsertRowCalled =>
        LET k == slot_count(PageOf(file, last'.page_id)) IN
        /\ k < max_rows_per_page => last'.kind = "Ok" /\ last'.n = k
        /\ k >= max_rows_per_page => last'.kind = "NoSpace"
        /\ last'.kind = "Ok" => last'.n < max_rows_per_page

C26_Capacity == [][CapacityLaw]_vars

\* the call after the last successful one on a page that holds rows
C26_Witness ==
    /\ last.op = "insert_row"
    /\ last.kind = "NoSpace"
    /\ max_rows_per_page >= 2
    /\ slot_count(PageOf(file, last.page_id)) = max_rows_per_page


(***************************************************************************)
(* C27.  Page life cycle: a page is Empty (slot_count = 0), Partial, or    *)
(* Full (the next insert_row would return NoSpace); the only transitions   *)
(* are Empty to Partial on the first insert_row and Partial to Full, and   *)
(* Full is terminal: once insert_row has returned NoSpace on a page, every *)
(* later insert_row on it returns NoSpace, whatever access_row_mut or      *)
(* set_row_deleted calls happen in between.                                *)
(***************************************************************************)
PageState(d) ==
    IF no_space(d) THEN "Full"
    ELSE IF slot_count(d) = 0 THEN "Empty"
    ELSE "Partial"

\* the pages that exist before and after the step, with their two states
PageMoves ==
    { <<PageState(PageOf(file, page_id)), PageState(PageOf(file', page_id))>> :
          page_id \in 0..(num_pages(file) - 1) }

FullRefuses ==
    InsertRowCalled =>
        (PageState(PageOf(file, last'.page_id)) = "Full" => last'.kind = "NoSpace")

\* C27 as stated
LifeCycleOriginal ==
    /\ \A m \in PageMoves :
          m[1] # m[2] => m \in { <<"Empty", "Partial">>, <<"Partial", "Full">> }
    /\ FullRefuses

C27_Original == [][LifeCycleOriginal]_vars

\* C27 as amended: a page that holds a single row goes from Empty to Full
LifeCycle ==
    /\ \A m \in PageMoves :
          m[1] # m[2] =>
              \/ m \in { <<"Empty", "Partial">>, <<"Partial", "Full">> }
              \/ m = <<"Empty", "Full">> /\ max_rows_per_page = 1
    /\ \A m \in PageMoves :
          m[1] # m[2] => last'.op \in {"insert_row", "insert"} /\ last'.kind = "Ok"
    /\ FullRefuses

C27_LifeCycle == [][LifeCycle]_vars

\* insert_row has refused a row on a full page one of whose rows was
\* deleted or overwritten in place
C27_Witness ==
    /\ last.op = "insert_row"
    /\ last.kind = "NoSpace"
    /\ slot_count(PageOf(file, last.page_id)) >= 1
    /\ \E page_row_n \in 0..(slot_count(PageOf(file, last.page_id)) - 1) :
          LET r == page_access_row(PageOf(file, last.page_id), page_row_n) IN
          r.kind = "Some" /\ r.row \notin RowValues


(***************************************************************************)
(* C28.  In every page reachable through insert, for every slot index      *)
(* i < slot_count the slot-directory entry i holds the offset              *)
(* PAGE_SZ - (i + 1) * S: slot index equals insertion index within the     *)
(* page, cells are packed backward from PAGE_SZ without gaps or overlap,   *)
(* and no cell overlaps the slot directory.                                *)
(***************************************************************************)
C28_SlotOffsets ==
    \A page_id \in AllocatedPageIds :
        LET d == PageBytes(page_id) IN
        /\ \A i \in 0..(slot_count(d) - 1) :
              /\ SlotEntry(d, i) = page_sz - (i + 1) * ROW_SZ
              /\ _offset(i, slot_count(d), d) = [some |-> TRUE, off |-> page_sz - (i + 1) * ROW_SZ]
        /\ free_end(d) = page_sz - slot_count(d) * ROW_SZ
        /\ _get_slot_id(slot_count(d)) <= page_sz - slot_count(d) * ROW_SZ

\* two pages, the first of them full with at least two rows
C28_Witness ==
    /\ num_pages(file) = 2
    /\ slot_count(PageBytes(0)) = max_rows_per_page
    /\ max_rows_per_page >= 2
    /\ slot_count(PageBytes(1)) >= 1
    /\ mutated


(***************************************************************************)
(* C29.  A successful allocate_new_page with num_pages = n beforehand      *)
(* returns n, sets num_pages to n + 1, grows the file to                   *)
(* sizeof(LedgerHeader) + (n + 1) * PAGE_SZ, and makes page n a freshly    *)
(* initialised empty page (slot_count 0, free_start PAGE_HEADER_SZ,        *)
(* free_end PAGE_SZ, all other bytes zero); it leaves page_cursor and      *)
(* every byte of pages 0..n-1 unchanged.                                   *)
(***************************************************************************)
AllocateFrame ==
    (last'.op = "allocate_new_page" /\ last'.kind = "Ok") =>
        LET n  == num_pages(file)
            d2 == PageOf(file', n)
        IN /\ last'.n = n
           /\ num_pages(file') = n + 1
           /\ Len(file') = LEDGER_HEADER_SZ + (n + 1) * page_sz
           /\ slot_count(d2) = 0
           /\ free_start(d2) = PAGE_HEADER_SZ
           /\ free_end(d2) = page_sz
           /\ Slice(d2, 0, 4) = Zeros(4)
           /\ Slice(d2, PAGE_HEADER_SZ, page_sz) = Zeros(page_sz - PAGE_HEADER_SZ)
           /\ page_cursor(file') = page_cursor(file)
           /\ Slice(file', LEDGER_HEADER_SZ, LEDGER_HEADER_SZ + n * page_sz)
                 = Slice(file, LEDGER_HEADER_SZ, LEDGER_HEADER_SZ + n * page_sz)

C29_AllocateFrame == [][AllocateFrame]_vars

\* allocate_new_page has just added a page behind one that holds rows
C29_Witness ==
    /\ last.op = "allocate_new_page"
    /\ last.kind = "Ok"
    /\ last.n = 1
    /\ num_pages(file) = 2
    /\ slot_count(PageBytes(0)) >= 1


(***************************************************************************)
(* C30.  open on a missing or zero-length file produces a ledger whose     *)
(* file length is sizeof(LedgerHeader) + PAGE_SZ, whose header has         *)
(* num_pages = 1 and page_cursor = 0 with the given name and description,  *)
(* and whose page 0 is empty (slot_count = 0, free_start = PAGE_HEADER_SZ, *)
(* free_end = PAGE_SZ), so that num_rows() = 0.                            *)
(***************************************************************************)
\* a ledger as the claim describes it, in the bytes f mapped with length ml
NewLedger(f, ml) ==
    /\ Len(f) = LEDGER_HEADER_SZ + page_sz
    /\ ml = Len(f)
    /\ num_pages(f) = 1
    /\ page_cursor(f) = 0
    /\ Slice(f, 1, 10) = ExampleName
    /\ Slice(f, 10, 42) = ExampleDescription \o Spaces(32 - Len(ExampleDescription))
    /\ slot_count(PageOf(f, 0)) = 0
    /\ free_start(PageOf(f, 0)) = PAGE_HEADER_SZ
    /\ free_end(PageOf(f, 0)) = page_sz
    /\ num_rows(f, ml) = [kind |-> "Ok", n |-> 0]

OpenCreates ==
    (last'.op = "open" /\ Len(file) = 0) => (last'.kind = "Ok" /\ NewLedger(file', map_len'))

C30_OpenNew == [][OpenCreates]_vars

\* open has just built a ledger in a zero-length file
C30_Witness ==
    /\ last = Result("open", "Ok", 0, <<>>)
    /\ status = "running"
    /\ NewLedger(file, map_len)


(***************************************************************************)
(* C31.  open on an existing non-empty file trusts the stored header: it   *)
(* changes no byte of the file and not its length, whatever name and       *)
(* description arguments are passed, and performs no recovery or           *)
(* re-initialisation.                                                      *)
(***************************************************************************)
OpenTrusts == (last'.op = "open" /\ Len(file) > 0) => file' = file

C31_OpenExisting == [][OpenTrusts]_vars

\* open has just been given a name and a description other than the stored
\* ones, over a file that holds rows and whose header counts a page more
\* than the file has
C31_Witness ==
    /\ last.op = "open"
    /\ last.kind = "Ok"
    /\ last.row # Slice(file, 1, 42)
    /\ rids # <<>>
    /\ Len(file) < LEDGER_HEADER_SZ + num_pages(file) * page_sz


(***************************************************************************)
(* C32.  The ledger-header row count LedgerHeader::num_rows(rows_per_page) *)
(* equals (num_pages - 1) * rows_per_page + the slot count of the tail     *)
(* page, so that for every reachable ledger state it agrees with the       *)
(* store's num_rows() when called with the store's rows-per-page fan-out.  *)
(***************************************************************************)
C32_HeaderNumRows ==
    last.op = "header_num_rows" =>
        /\ last.n = (num_pages(file) - 1) * last.row[1]
                        + slot_count(PageBytes(num_pages(file) - 1))
        /\ last.row[1] = max_rows_per_page => last.n = num_rows(file, map_len).n


(***************************************************************************)
(* C33.  Little-endian is used consistently for slot offsets and header    *)
(* counters on every host: the byte order in which insert_row writes a     *)
(* slot offset is the one in which _offset reads it, and the byte order in *)
(* which inc_page_cursor updates page_cursor is the one in which           *)
(* page_cursor() reads it, so on a big-endian host as on a little-endian   *)
(* one a row inserted at slot i is read back from the cell it was written  *)
(* to and page_cursor advances by one.                                     *)
(***************************************************************************)
HostIndependent ==
    /\ (last'.op = "insert" /\ last'.kind = "Ok") =>
           LET r == access_row(file', map_len', last'.n) IN
           /\ r.kind = "Some"
           /\ r.row = last'.row
           /\ r.off = SlotEntry(PageOf(file', r.pid), from_row_id(last'.n).page_row_n)
    /\ page_cursor(file') # page_cursor(file) => page_cursor(file') = page_cursor(file) + 1

C33_ByteOrder == [][HostIndependent]_vars


(***************************************************************************)
(* C34.  In every state reachable through open and insert alone,           *)
(* page_cursor = num_pages - 1: the page that insert writes to is the page *)
(* that num_rows() counts as the tail.                                     *)
(***************************************************************************)
C34_CursorIsTail == direct_allocs = 0 => page_cursor(file) = num_pages(file) - 1

\* inserts alone have moved the cursor to a second page
C34_Witness ==
    /\ direct_allocs = 0
    /\ last.op = "insert"
    /\ page_cursor(file) = 1
    /\ num_pages(file) = 2

(***************************************************************************)
(* C35.  In every state reachable through open, insert and                 *)
(* allocate_new_page, every page with id < page_cursor holds exactly       *)
(* max_rows_per_page rows and every page with id > page_cursor holds none, *)
(* which is what makes row_id = page_id * max_rows_per_page + slot dense.  *)
(***************************************************************************)
C35_FullBeforeCursor ==
    \A page_id \in AllocatedPageIds :
        /\ page_id < page_cursor(file) => slot_count(PageBytes(page_id)) = max_rows_per_page
        /\ page_id > page_cursor(file) => slot_count(PageBytes(page_id)) = 0

\* a page allocated directly lies empty behind the cursor page, which
\* inserts have filled
C35_Witness ==
    /\ direct_allocs >= 1
    /\ page_cursor(file) = 0
    /\ num_pages(file) = 2
    /\ max_rows_per_page >= 1
    /\ slot_count(PageBytes(0)) = max_rows_per_page
    /\ last.op = "insert"

(***************************************************************************)
(* C36.  The public allocate_new_page may be interleaved with inserts      *)
(* without breaking the row count: after any sequence of insert and direct *)
(* allocate_new_page calls, num_rows() equals the number of successful     *)
(* inserts and access_row(rid) returns a row for exactly the rids below    *)
(* that number.                                                            *)
(***************************************************************************)
C36_AllocateInterleaved ==
    /\ num_rows(file, map_len) = [kind |-> "Ok", n |-> NumInserted]
    /\ \A rid \in RowIds : access_row(file, map_len, rid).kind = "Some" <=> rid < NumInserted


(***************************************************************************)
(* C37.  The ledger file is determined by the first 9 bytes of the name    *)
(* only: LedgerName::from(&str) keeps the first min(len, 9) bytes and pads *)
(* with spaces to 9, so two names that agree on their first 9 bytes (or    *)
(* differ only by trailing spaces up to 9 bytes) resolve to the same       *)
(* 12-character file name and open the same ledger, while names that       *)
(* differ within their space-padded first 9 bytes resolve to different     *)
(* files.                                                                  *)
(***************************************************************************)
\* the first 9 bytes of a name, with spaces where it has none
PaddedPrefix(name) == [i \in 1..9 |-> IF i <= Len(name) THEN name[i] ELSE 32]

\* the name a ledger file was created under, as its header keeps it
NameOf(f) == Slice(f, 1, 10)

\* open(name) lands on a file of the folder exactly when that file was created
\* under a name with the same padded prefix, and then the store has that
\* file's bytes and rows; otherwise it lands on a new ledger of that name
SameNameSameLedger ==
    last'.op = "open" =>
        LET name == last'.row IN
        /\ Len(folder'.path) = 12
        /\ (PaddedPrefix(name) = NameOf(file)) <=> (folder'.path = folder.path)
        /\ folder'.path = folder.path => (file' = file /\ rids' = rids)
        /\ \A p \in DOMAIN folder.closed :
              /\ (PaddedPrefix(name) = NameOf(folder.closed[p].file)) <=> (folder'.path = p)
              /\ folder'.path = p =>
                    (file' = folder.closed[p].file /\ rids' = folder.closed[p].rids)
        /\ folder'.path \notin (DOMAIN folder.closed \cup {folder.path}) =>
              /\ Len(file') = LEDGER_HEADER_SZ + page_sz
              /\ NameOf(file') = PaddedPrefix(name)
              /\ num_rows(file', map_len') = [kind |-> "Ok", n |-> 0]
              /\ rids' = <<>>

====
